---- MODULE Spec2Model ----
(***************************************************************************)
(* Cyclomatic-complexity clang plugin: CyclomaticComplexityVisitor and     *)
(* CyclomaticComplexityConsumer (src/unnamed/part_000).                     *)
(*                                                                         *)
(* A statement tree is a table of nodes: kind[i] is the class of node i,   *)
(* parent[i] < i is its parent (0 for the root, node 1).  A Stmt pointer   *)
(* is a node number, 0 is the null pointer.  A node of kind "Null" stands  *)
(* for a null entry in its parent's children() range (an absent init,      *)
(* condition or increment of a for statement, for example).                *)
(*                                                                         *)
(* Strings (file names, function names) are sequences of one-character     *)
(* strings.                                                                *)
(***************************************************************************)
EXTENDS Integers, Sequences, FiniteSets, TLC

VARIABLES
    tu,             \* the translation unit: the sequence of FunctionDecl nodes
    run,            \* number of HandleTranslationUnit calls started so far
    pc,             \* "idle" | "walk" | "crashed" (position of the host)
    idx,            \* index in tu of the next declaration TraverseDecl visits
    ComplexityMap,  \* std::map<std::string,int> of the current visitor
    diags,          \* remarks reported to the DiagnosticsEngine in this run
    file,           \* lines of results.cy
    cerrLog,        \* number of "Error opening file" lines written to std::cerr
    coutLog,        \* number of "Null statement encountered!" lines on std::cout
    opened,         \* per finished run: did std::ofstream open results.cy
    reports,        \* per finished run: content of results.cy when it returned
    ub,             \* a null FileEntry was dereferenced and the run went on
    tree,           \* calculator harness: the statement tree
    stmt,           \* calculator harness: the pointer handed in (0 = null)
    result          \* calculator harness: returned value, -1 before the call

vars == <<tu, run, pc, idx, ComplexityMap, diags, file, cerrLog, coutLog,
          opened, reports, ub, tree, stmt, result>>

calcVars == <<tree, stmt, result>>

(***************************************************************************)
(* Bounds                                                                  *)
(***************************************************************************)
\* largest number of nodes of an enumerated statement tree
MaxNodes == 4

\* largest number of function declarations in the translation unit
MaxDecls == 3

\* number of translation-unit passes of one host process
MaxRuns == 2

(***************************************************************************)
(* Statement trees                                                         *)
(***************************************************************************)
DecisionKinds ==
    {"IfStmt", "SwitchStmt", "ForStmt", "WhileStmt", "DoStmt", "ConditionalOperator"}

EnumKinds == DecisionKinds \cup {"CompoundStmt", "ReturnStmt", "Null"}

\* isa<IfStmt>(stmt) || isa<SwitchStmt>(stmt) || ... without the conditional operator
isaBranching_NoTernary(k) ==
    k \in {"IfStmt", "SwitchStmt", "ForStmt", "WhileStmt", "DoStmt"}

\* the isa<> test of countBranchingStatements
isaBranching(k) ==
    \/ k = "IfStmt"
    \/ k = "SwitchStmt"
    \/ k = "ForStmt"
    \/ k = "WhileStmt"
    \/ k = "DoStmt"
    \/ k = "ConditionalOperator"

\* stmt->children(): the child pointers of node n in order, 0 for a null child
children(t, n) ==
    LET RECURSIVE from(_)
        from(i) ==
            IF i > Len(t.kind) THEN <<>>
            ELSE IF t.parent[i] = n
                 THEN <<IF t.kind[i] = "Null" THEN 0 ELSE i>> \o from(i + 1)
                 ELSE from(i + 1)
    IN from(n + 1)

RECURSIVE countBranchingStatements(_, _)
countBranchingStatements(t, s) ==
    LET cs == children(t, s)
        RECURSIVE loop(_)
        loop(i) ==
            IF i > Len(cs) THEN 0
            ELSE (IF cs[i] # 0 THEN countBranchingStatements(t, cs[i]) ELSE 0)
                 + loop(i + 1)
    IN (IF isaBranching(t.kind[s]) THEN 1 ELSE 0) + loop(1)

calculateCyclomaticComplexity(t, s) ==
    IF s = 0 THEN 0 ELSE 1 + countBranchingStatements(t, s)

\* the parent tables of the trees of n nodes: node 1 is the root
ParentMaps(n) ==
    { p \in [1..n -> 0..(n - 1)] :
        /\ p[1] = 0
        /\ \A i \in 2..n : p[i] \in 1..(i - 1) }

\* a tree handed to the calculator: the root is not a null pointer and a null
\* pointer has no children
WellFormedTree(t) ==
    /\ t.kind[1] # "Null"
    /\ \A i \in 2..Len(t.kind) : t.kind[t.parent[i]] # "Null"

\* { return a + b; }
ScenarioA ==
    [kind   |-> <<"CompoundStmt", "ReturnStmt", "BinaryOperator">>,
     parent |-> <<0, 1, 2>>]

\* { if (a > b) return a + b; else if (a < b) return a - b; else return a * b; }
ScenarioB ==
    [kind   |-> <<"CompoundStmt", "IfStmt", "BinaryOperator", "ReturnStmt",
                  "IfStmt", "BinaryOperator", "ReturnStmt", "ReturnStmt">>,
     parent |-> <<0, 1, 2, 2, 2, 5, 5, 5>>]

\* { for (; i < n; ) { if (x) return y; } }   ForStmt children: init, condvar,
\* cond, inc, body
ScenarioC ==
    [kind   |-> <<"CompoundStmt", "ForStmt", "Null", "Null", "BinaryOperator",
                  "Null", "CompoundStmt", "IfStmt", "DeclRefExpr", "ReturnStmt">>,
     parent |-> <<0, 1, 2, 2, 2, 2, 2, 7, 8, 8>>]

\* { switch (x) { case 1: ... case 5: return; } }
ScenarioD ==
    [kind   |-> <<"CompoundStmt", "SwitchStmt", "DeclRefExpr", "CompoundStmt",
                  "CaseStmt", "CaseStmt", "CaseStmt", "CaseStmt", "CaseStmt",
                  "ReturnStmt", "ReturnStmt", "ReturnStmt", "ReturnStmt",
                  "ReturnStmt">>,
     parent |-> <<0, 1, 2, 2, 4, 4, 4, 4, 4, 5, 6, 7, 8, 9>>]

Scenarios == {ScenarioA, ScenarioB, ScenarioC, ScenarioD}

(***************************************************************************)
(* Calculator harness: calculateCyclomaticComplexity on every small tree   *)
(***************************************************************************)
NoTree == [kind |-> <<>>, parent |-> <<>>]

InitCalc ==
    /\ \/ tree \in Scenarios
       \/ \E n \in 1..MaxNodes :
            \E k \in [1..n -> EnumKinds], p \in ParentMaps(n) :
                /\ tree = [kind |-> k, parent |-> p]
                /\ WellFormedTree(tree)
    /\ stmt \in (IF Len(tree.kind) = 1 THEN {0, 1} ELSE {1})
    /\ result = -1
    /\ tu = <<>>
    /\ run = 0
    /\ pc = "idle"
    /\ idx = 1
    /\ ComplexityMap = <<>>
    /\ diags = <<>>
    /\ file = <<>>
    /\ cerrLog = 0
    /\ coutLog = 0
    /\ opened = <<>>
    /\ reports = <<>>
    /\ ub = FALSE

Calculate ==
    /\ result = -1
    /\ result' = calculateCyclomaticComplexity(tree, stmt)
    /\ coutLog' = coutLog + (IF stmt = 0 THEN 1 ELSE 0)
    /\ UNCHANGED <<tu, run, pc, idx, ComplexityMap, diags, file, cerrLog,
                   opened, reports, ub, tree, stmt>>

NextCalc == Calculate

SpecCalc == InitCalc /\ [][NextCalc]_vars

\* the nodes of the subtree of t rooted at s
Subtree(t, s) ==
    LET RECURSIVE below(_)
        below(i) == IF i = s THEN TRUE
                    ELSE IF i = 0 THEN FALSE
                    ELSE below(t.parent[i])
    IN { i \in 1..Len(t.kind) : below(i) }

\* C1: for every non-nil body, the calculator returns 1 + the number of
\* if / switch / for / while / do / conditional-operator nodes anywhere in the
\* subtree (each counted once, whatever its children); with none it returns 1.
C1_DecisionCount ==
    (result # -1 /\ stmt # 0) =>
        result = 1 + Cardinality({ i \in Subtree(tree, stmt) :
                                     tree.kind[i] \in DecisionKinds })

\* a conditional operator below a counted statement below a counted statement
C1_Witness ==
    /\ result = 4
    /\ Len(tree.kind) = 3
    /\ tree.parent = <<0, 1, 2>>
    /\ tree.kind[3] = "ConditionalOperator"

(***************************************************************************)
(* Strings                                                                 *)
(***************************************************************************)
\* the character code of the characters function names are made of
Ord(c) ==
    CASE c = "Z" -> 90
      [] c = "a" -> 97
      [] c = "f" -> 102
      [] c = "g" -> 103

\* llvm::StringRef::ends_with
ends_with(s, suffix) ==
    /\ Len(s) >= Len(suffix)
    /\ SubSeq(s, Len(s) - Len(suffix) + 1, Len(s)) = suffix

\* std::string::compare: the sign of a compared with b
compare(a, b) ==
    LET RECURSIVE at(_)
        at(i) ==
            IF i > Len(a) \/ i > Len(b)
            THEN (IF Len(a) < Len(b) THEN -1 ELSE IF Len(a) > Len(b) THEN 1 ELSE 0)
            ELSE IF Ord(a[i]) < Ord(b[i]) THEN -1
            ELSE IF Ord(a[i]) > Ord(b[i]) THEN 1
            ELSE at(i + 1)
    IN at(1)

\* a key order that puts the greater string first
less_Reversed(a, b) == compare(a, b) > 0

\* std::less<std::string>, the key order of ComplexityMap
less(a, b) == compare(a, b) < 0

\* operator<<(int): the decimal digits of a non-negative int
RECURSIVE formatInt(_)
formatInt(n) ==
    LET digit(d) == CASE d = 0 -> "0" [] d = 1 -> "1" [] d = 2 -> "2"
                      [] d = 3 -> "3" [] d = 4 -> "4" [] d = 5 -> "5"
                      [] d = 6 -> "6" [] d = 7 -> "7" [] d = 8 -> "8"
                      [] d = 9 -> "9"
    IN IF n < 10 THEN <<digit(n)>> ELSE formatInt(n \div 10) \o <<digit(n % 10)>>

\* one line of results.cy
formatLine(name, complexity) ==
    <<"Function: ">> \o name \o <<", Cyclomatic Complexity: ">>
        \o formatInt(complexity)

(***************************************************************************)
(* The translation unit                                                    *)
(***************************************************************************)
\* source locations: the file entry the location resolves to (if any) and
\* whether the location lies in a system header
MainFile   == [hasEntry |-> TRUE,  name |-> <<"m", ".", "c", "p", "p">>, sys |-> FALSE]
UserH      == [hasEntry |-> TRUE,  name |-> <<"u", ".", "h">>, sys |-> FALSE]
UserHpp    == [hasEntry |-> TRUE,  name |-> <<"u", ".", "h", "p", "p">>, sys |-> FALSE]
SysHeader  == [hasEntry |-> TRUE,  name |-> <<"v", "e", "c", "t", "o", "r">>, sys |-> TRUE]
NoFileLoc  == [hasEntry |-> FALSE, name |-> <<>>, sys |-> FALSE]

\* the functions a translation unit is drawn from: each has a display name, a
\* body and the places where a declaration of it may be written (the primary
\* source file, and for F1..F3 a header of its own kind)
Funcs == {"F1", "F2", "F3", "F4"}

\* getNameAsString(): F2 and F3 are overloads, F4 is a function template
FuncName(f) ==
    CASE f = "F1" -> <<"g">>
      [] f = "F2" -> <<"f">>
      [] f = "F3" -> <<"f">>
      [] f = "F4" -> <<"f", "a">>

\* the body of the function's definition
FuncBody(f) ==
    CASE f = "F1" -> ScenarioA
      [] f = "F2" -> ScenarioC
      [] f = "F3" -> ScenarioD
      [] f = "F4" -> NoTree

\* the definition is a late-parsed template: it counts as a body but its Stmt
\* is not there
LateParsed(f) == f = "F4"

\* where a declaration of the function may be written
FuncLocs(f) ==
    CASE f = "F1" -> {MainFile, UserH, NoFileLoc}
      [] f = "F2" -> {MainFile, UserHpp}
      [] f = "F3" -> {MainFile, SysHeader}
      [] f = "F4" -> {MainFile}

\* a FunctionDecl node: def is doesThisDeclarationHaveABody()
Decls ==
    { d \in [fn : Funcs, loc : {MainFile, UserH, UserHpp, SysHeader, NoFileLoc},
             def : BOOLEAN] : d.loc \in FuncLocs(d.fn) }

\* one definition per function
OneDefinition(t) ==
    \A i, j \in 1..Len(t) : (t[i].fn = t[j].fn /\ t[i].def /\ t[j].def) => i = j

\* func->hasBody() as the clang AST answers it: true when some redeclaration
\* of the function has a body, not only the visited one
hasBody(t, i) == \E j \in 1..Len(t) : t[j].fn = t[i].fn /\ t[j].def

\* func->getBody() as the clang AST answers it: the Stmt of the definition
\* found through the redeclaration chain, null when there is none or when the
\* definition is a late-parsed template
getBody(t, i) ==
    IF ~hasBody(t, i) THEN 0
    ELSE IF LateParsed(t[i].fn) THEN 0
    ELSE 1

\* isInHeader, by outcome: "fault" where it dereferences the null FileEntry,
\* where it may also read a garbage name and return either answer
isInHeader(loc) ==
    IF loc.sys THEN {"true"}
    ELSE IF ~loc.hasEntry THEN {"fault", "true", "false"}
    ELSE IF ends_with(loc.name, <<".", "h">>) \/ ends_with(loc.name, <<".", "h", "p", "p">>)
         THEN {"true"}
         ELSE {"false"}

\* ComplexityMap.insert({key, value}): an existing entry is kept
mapAssign_KeepFirst(m, key, value) ==
    [k \in (DOMAIN m) \cup {key} |-> IF k \in DOMAIN m THEN m[k] ELSE value]

\* ComplexityMap[key] = value
mapAssign(m, key, value) ==
    [k \in (DOMAIN m) \cup {key} |-> IF k = key THEN value ELSE m[k]]

\* the keys of a std::map in iteration order
RECURSIVE inOrder(_)
inOrder(keys) ==
    IF keys = {} THEN <<>>
    ELSE LET first == CHOOSE k \in keys : \A o \in keys \ {k} : less(k, o)
         IN <<first>> \o inOrder(keys \ {first})

\* the lines the loop of writeComplexityToFile writes
reportLines(m) ==
    LET order == inOrder(DOMAIN m)
    IN [i \in 1..Len(order) |-> formatLine(order[i], m[order[i]])]

\* std::ofstream opened in append mode: the old content is kept
openedFile_Append(ok, old) == old

\* content of the file once std::ofstream outFile(filename) has returned
openedFile(ok, old) == IF ok THEN <<>> ELSE old

EmptyMap == [k \in {} |-> 0]

(***************************************************************************)
(* The plugin                                                              *)
(***************************************************************************)
Init ==
    /\ tu \in { t \in UNION { [1..n -> Decls] : n \in 0..MaxDecls } : OneDefinition(t) }
    /\ run = 0
    /\ pc = "idle"
    /\ idx = 1
    /\ ComplexityMap = EmptyMap
    /\ diags = <<>>
    /\ file = <<>>
    /\ cerrLog = 0
    /\ coutLog = 0
    /\ opened = <<>>
    /\ reports = <<>>
    /\ ub = FALSE
    /\ tree = NoTree
    /\ stmt = 0
    /\ result = -1

\* CreateASTConsumer and the start of HandleTranslationUnit: a new consumer
\* with a new visitor (an empty ComplexityMap) and a new compiler instance
StartRun ==
    /\ pc = "idle"
    /\ run < MaxRuns
    /\ run' = run + 1
    /\ pc' = "walk"
    /\ idx' = 1
    /\ ComplexityMap' = EmptyMap
    /\ diags' = <<>>
    /\ UNCHANGED <<tu, file, cerrLog, coutLog, opened, reports, ub, calcVars>>

\* VisitFunctionDecl(func) for the next FunctionDecl of the traversal
VisitFunctionDecl ==
    /\ pc = "walk"
    /\ idx <= Len(tu)
    /\ \E header \in isInHeader(tu[idx].loc) :
        /\ ub' = (ub \/ (~tu[idx].loc.sys /\ ~tu[idx].loc.hasEntry /\ header # "fault"))
        /\ IF header = "fault"
           THEN /\ pc' = "crashed"
                /\ UNCHANGED <<idx, ComplexityMap, diags, coutLog>>
           ELSE /\ pc' = "walk"
                /\ idx' = idx + 1
                /\ IF header = "false" /\ hasBody(tu, idx)
                   THEN LET body == getBody(tu, idx)
                            complexity ==
                                calculateCyclomaticComplexity(FuncBody(tu[idx].fn), body)
                        IN /\ coutLog' = coutLog + (IF body = 0 THEN 1 ELSE 0)
                           /\ ComplexityMap' =
                                mapAssign(ComplexityMap, FuncName(tu[idx].fn), complexity)
                           /\ diags' = Append(diags, [decl |-> idx, value |-> complexity])
                   ELSE UNCHANGED <<ComplexityMap, diags, coutLog>>
    /\ UNCHANGED <<tu, run, file, cerrLog, opened, reports, calcVars>>

\* writeComplexityToFile that ends the process when the stream does not open
writeComplexityToFile_Exit(ok) ==
    /\ pc = "walk"
    /\ idx > Len(tu)
    /\ file' = (IF ok THEN <<>> \o reportLines(ComplexityMap) ELSE file)
    /\ cerrLog' = cerrLog + (IF ok THEN 0 ELSE 1)
    /\ opened' = Append(opened, ok)
    /\ reports' = Append(reports, file')
    /\ pc' = (IF ok THEN "idle" ELSE "crashed")
    /\ UNCHANGED <<tu, run, idx, ComplexityMap, diags, coutLog, ub, calcVars>>

\* writeComplexityToFile("results.cy") once the traversal has returned; ok is
\* whether the stream opened
writeComplexityToFile(ok) ==
    /\ pc = "walk"
    /\ idx > Len(tu)
    /\ file' = (IF ok THEN openedFile(ok, file) \o reportLines(ComplexityMap)
                      ELSE openedFile(ok, file))
    /\ cerrLog' = cerrLog + (IF ok THEN 0 ELSE 1)
    /\ opened' = Append(opened, ok)
    /\ reports' = Append(reports, file')
    /\ pc' = "idle"
    /\ UNCHANGED <<tu, run, idx, ComplexityMap, diags, coutLog, ub, calcVars>>

WriteReport == \E ok \in BOOLEAN : writeComplexityToFile(ok)

Next ==
    \/ StartRun
    \/ VisitFunctionDecl
    \/ WriteReport

Spec == Init /\ [][Next]_vars

(***************************************************************************)
(* Properties                                                              *)
(***************************************************************************)
\* the location is in a system header or in a file named *.h or *.hpp
InHeaderLoc(loc) ==
    LET n == Len(loc.name)
    IN \/ loc.sys
       \/ /\ loc.hasEntry
          /\ \/ n >= 2 /\ loc.name[n - 1] = "." /\ loc.name[n] = "h"
             \/ /\ n >= 4
                /\ loc.name[n - 3] = "." /\ loc.name[n - 2] = "h"
                /\ loc.name[n - 1] = "p" /\ loc.name[n] = "p"

\* the function's definition is written in a header
DefinedInHeader(f) ==
    \E i \in 1..Len(tu) : tu[i].fn = f /\ tu[i].def /\ InHeaderLoc(tu[i].loc)

\* every declaration of the translation unit resolves to a file entry
AllResolved == \A i \in 1..Len(tu) : tu[i].loc.hasEntry

\* the declaration is a definition in a primary source file
EligibleDefinition(i) ==
    tu[i].def /\ tu[i].loc.hasEntry /\ ~InHeaderLoc(tu[i].loc)

\* the traversal of the current run has returned
TraversalDone == (pc = "walk" /\ idx > Len(tu)) \/ (pc = "idle" /\ run >= 1)

\* a before b in lexicographic order of character codes
LexBefore(a, b) ==
    \E k \in 0..Len(a) :
        /\ k <= Len(b)
        /\ \A j \in 1..k : a[j] = b[j]
        /\ \/ k = Len(a) /\ k < Len(b)
           \/ k < Len(a) /\ k < Len(b) /\ Ord(a[k + 1]) < Ord(b[k + 1])

\* the diagnostics of the current run that are bound to function f
DiagsOf(f) == { i \in 1..Len(diags) : tu[diags[i].decl].fn = f }

\* the last diagnostic of the current run issued for a function named n
LastFor(n) ==
    LET W == { i \in 1..Len(diags) : FuncName(tu[diags[i].decl].fn) = n }
    IN CHOOSE i \in W : \A j \in W : j <= i

\* C2: the ComplexityMap never holds an entry for a function that is defined
\* in a *.h / *.hpp file or in a system header, whatever declarations of it
\* the walker visits.
C2_HeaderFunctionsExcluded ==
    AllResolved =>
        \A n \in DOMAIN ComplexityMap :
            ~DefinedInHeader(tu[diags[LastFor(n)].decl].fn)

\* C3: a nil body root is logged, writes and changes no ComplexityMap entry
\* and the traversal goes on; every value in the ComplexityMap is >= 1.
C3_NilBodyExcluded ==
    [][ /\ ( /\ pc = "walk" /\ idx <= Len(tu)
             /\ isInHeader(tu[idx].loc) = {"false"}
             /\ hasBody(tu, idx) /\ getBody(tu, idx) = 0 )
           => ( /\ coutLog' = coutLog + 1
                /\ ComplexityMap' = ComplexityMap
                /\ pc' = "walk" /\ idx' = idx + 1 )
        /\ \A n \in DOMAIN ComplexityMap' : ComplexityMap'[n] >= 1 ]_vars

\* C4: a declaration whose location resolves to no file entry is skipped
\* (nothing recorded, nothing reported), the walker does not fault and goes on
\* with the next declaration.
C4_UnresolvedLocationSkipped ==
    [][ (pc = "walk" /\ idx <= Len(tu) /\ ~tu[idx].loc.hasEntry)
          => ( /\ pc' = "walk" /\ idx' = idx + 1
               /\ ComplexityMap' = ComplexityMap
               /\ diags' = diags ) ]_vars

\* C5: visiting a declaration that is not itself a definition changes no
\* ComplexityMap entry and emits no diagnostic, also when another declaration
\* of the function has a body.
C5_PrototypeSkipped ==
    [][ (pc = "walk" /\ idx <= Len(tu) /\ AllResolved /\ ~tu[idx].def)
          => (ComplexityMap' = ComplexityMap /\ diags' = diags) ]_vars

\* C6: every eligible definition visited so far has exactly one diagnostic,
\* bound to it and carrying its complexity, issued in visiting order, and no
\* function is dispatched to the calculator more than once in a run.
C6_OneDiagnosticPerDefinition ==
    AllResolved =>
        /\ \A f \in Funcs : Cardinality(DiagsOf(f)) <= 1
        /\ \A i \in 1..Len(tu) :
            (EligibleDefinition(i) /\ i < idx) =>
                \E k \in 1..Len(diags) :
                    /\ diags[k].decl = i
                    /\ diags[k].value =
                         calculateCyclomaticComplexity(FuncBody(tu[i].fn),
                                                       IF LateParsed(tu[i].fn) THEN 0 ELSE 1)
                    /\ \A j \in 1..Len(diags) : diags[j].decl = i => j = k
        /\ \A j, k \in 1..Len(diags) : j < k => diags[j].decl < diags[k].decl

\* the walker has visited declaration i in this run and computed a complexity
\* for it: the declaration is not classified as in a header (where the
\* location resolves to no file, by what the run did) and some declaration of
\* its function has a body
Computed(i) ==
    /\ i < idx
    /\ \E j \in 1..Len(tu) : tu[j].fn = tu[i].fn /\ tu[j].def
    /\ IF tu[i].loc.hasEntry
       THEN ~InHeaderLoc(tu[i].loc)
       ELSE \E k \in 1..Len(diags) : diags[k].decl = i

\* the complexity of function f
ComplexityOf(f) ==
    IF LateParsed(f) THEN 0
    ELSE 1 + Cardinality({ i \in 1..Len(FuncBody(f).kind) :
                             FuncBody(f).kind[i] \in DecisionKinds })

\* C7: the ComplexityMap holds exactly one entry per function name computed so
\* far; the entry of a name holds the complexity of the function of that name
\* visited last, also when several functions share the name (the values are
\* not merged), and a traversal of resolvable declarations does not fault.
C7_LastVisitedWins ==
    /\ DOMAIN ComplexityMap =
         { FuncName(tu[i].fn) : i \in { j \in 1..Len(tu) : Computed(j) } }
    /\ \A n \in DOMAIN ComplexityMap :
         LET V == { i \in 1..Len(tu) : Computed(i) /\ FuncName(tu[i].fn) = n }
             last == CHOOSE i \in V : \A j \in V : j <= i
         IN ComplexityMap[n] = ComplexityOf(tu[last].fn)
    /\ AllResolved => pc # "crashed"

\* two eligible definitions of different complexity share a name; after the
\* traversal the entry holds the complexity of the later one
C7_Witness ==
    /\ TraversalDone
    /\ \E i, j \in 1..Len(tu) :
        /\ i < j
        /\ EligibleDefinition(i) /\ EligibleDefinition(j)
        /\ tu[i].fn # tu[j].fn
        /\ FuncName(tu[i].fn) = FuncName(tu[j].fn)
        /\ \A k \in 1..Len(tu) : FuncName(tu[k].fn) = FuncName(tu[j].fn) => k <= j
        /\ ComplexityMap[FuncName(tu[j].fn)] = ComplexityOf(tu[j].fn)
        /\ ComplexityOf(tu[i].fn) # ComplexityOf(tu[j].fn)

\* the last run returned and its report was written
ReportWritten == pc = "idle" /\ Len(opened) >= 1 /\ opened[Len(opened)]

\* the permutations of 1..n
Perms(n) == { p \in [1..n -> 1..n] : \A i, j \in 1..n : p[i] = p[j] => i = j }

\* the ComplexityMap the walker builds when it discovers the functions of this
\* run in the order p
DiscoveredIn(p) ==
    LET RECURSIVE upto(_)
        upto(k) ==
            IF k = 0 THEN EmptyMap
            ELSE mapAssign(upto(k - 1), FuncName(tu[diags[p[k]].decl].fn),
                           diags[p[k]].value)
    IN upto(Len(diags))

\* the report has one line per ComplexityMap entry, in strictly increasing
\* lexicographic order of function name
SortedReport ==
    /\ Len(file) = Cardinality(DOMAIN ComplexityMap)
    /\ \E order \in [1..Len(file) -> DOMAIN ComplexityMap] :
        /\ \A i, j \in 1..Len(file) : i < j => LexBefore(order[i], order[j])
        /\ \A i \in 1..Len(file) :
             file[i] = formatLine(order[i], ComplexityMap[order[i]])

\* no two distinct functions discovered in this run share a display name
DistinctNames ==
    \A j, k \in 1..Len(diags) :
        FuncName(tu[diags[j].decl].fn) = FuncName(tu[diags[k].decl].fn)
            => tu[diags[j].decl].fn = tu[diags[k].decl].fn

\* C8 as stated: the report has exactly one line per ComplexityMap entry, in
\* strictly increasing lexicographic order of function name, and every
\* permutation of the discovery order of the same functions yields the same
\* sequence of lines.
C8_AnyPermutationSameReport ==
    ReportWritten =>
        /\ SortedReport
        /\ \A p \in Perms(Len(diags)) : reportLines(DiscoveredIn(p)) = file

\* C8 as amended: the report has exactly one line per ComplexityMap entry, in
\* strictly increasing lexicographic order of function name, whatever the
\* discovery order; every permutation of the discovery order yields the same
\* sequence of lines when no two distinct discovered functions share a
\* display name.
C8_ReportSorted ==
    ReportWritten =>
        /\ SortedReport
        /\ DistinctNames =>
             \A p \in Perms(Len(diags)) : reportLines(DiscoveredIn(p)) = file

\* two functions of different names were discovered in decreasing order of
\* name and the report lists both
C8_Witness ==
    /\ ReportWritten
    /\ DistinctNames
    /\ Len(file) >= 2
    /\ \E j, k \in 1..Len(diags) :
        /\ j < k
        /\ LexBefore(FuncName(tu[diags[k].decl].fn), FuncName(tu[diags[j].decl].fn))

\* C9: when the report cannot be opened the failure is reported once and the
\* call returns: the ComplexityMap, the diagnostics and the file are as they
\* were; the next run then starts and is processed normally.
C9_OpenFailureIsNotFatal ==
    [][ /\ ( /\ pc = "walk" /\ idx > Len(tu)
             /\ Len(opened') = Len(opened) + 1 /\ ~opened'[Len(opened')] )
           => ( /\ cerrLog' = cerrLog + 1
                /\ ComplexityMap' = ComplexityMap
                /\ diags' = diags
                /\ file' = file
                /\ pc' = "idle" )
        /\ ( /\ pc = "idle" /\ Len(opened) >= 1 /\ ~opened[Len(opened)] )
           => ( /\ pc' = "walk" /\ run' = run + 1 /\ idx' = 1
                /\ DOMAIN ComplexityMap' = {}
                /\ cerrLog' = cerrLog /\ file' = file )
        /\ ( /\ pc = "walk" /\ idx > Len(tu)
             /\ Len(opened) >= 1 /\ ~opened[Len(opened)]
             /\ Len(opened') = Len(opened) + 1 /\ opened'[Len(opened')] )
           => ( /\ Len(file') = Cardinality(DOMAIN ComplexityMap)
                /\ cerrLog' = cerrLog ) ]_vars

\* the first run could not open the report, the second run analysed a function
\* and wrote the report
C9_Witness ==
    /\ pc = "idle"
    /\ Len(opened) = 2 /\ ~opened[1] /\ opened[2]
    /\ cerrLog = 1
    /\ Len(diags) >= 1
    /\ Len(file) >= 1

\* C10: a run on the same translation unit after a run that wrote the report
\* leaves results.cy as that run left it (overwritten, not appended to); runs
\* that went through the undefined dereference of isInHeader are not covered.
C10_RerunSameReport ==
    ~ub =>
        \A r \in 2..Len(reports) : opened[r - 1] => reports[r] = reports[r - 1]

\* two runs wrote a report of at least two lines
C10_Witness ==
    /\ ~ub
    /\ Len(reports) >= 2
    /\ opened[1] /\ opened[2]
    /\ Len(reports[2]) >= 2
    /\ file = reports[2]

====
